---- MODULE Spec2Model ----
(***************************************************************************)
(* Tasya (src/main.rs): a one-shot command line tool that lists a          *)
(* directory tree to a bounded depth, classifies the entries by extension  *)
(* and either reports the counts (analyze) or copies the admitted files    *)
(* into a fresh output directory under numbered names (rename).            *)
(*                                                                         *)
(* A string is a sequence of one-character strings, a path is a sequence   *)
(* of names (<< >> is the working directory "."), a filesystem is a        *)
(* function from the existing paths to their nodes.                        *)
(***************************************************************************)
EXTENDS Integers, Sequences, FiniteSets, TLC

VARIABLES
    fs,       \* the filesystem: path -> [kind, data]
    before,   \* the filesystem as the process found it (history)
    args,     \* the parsed command line (struct Arguments), fixed for the run
    pc,       \* where the process is
    number,   \* rename: `let mut number`
    files,    \* rename: what is left of `files` for the `for` loop
    listed,   \* what ls_recursive returned to the operation (history)
    copies,   \* rename: the fs::copy calls that succeeded, in order (history)
    out,      \* analyze: what was printed
    stack,    \* the call stack of ls_recursive, when it is run step by step
    result    \* the value ls_recursive returned, when it is run step by step

vars == <<fs, before, args, pc, number, files, listed, copies, out, stack, result>>

(***************************************************************************)
(* Bounds of the model.                                                    *)
(***************************************************************************)
\* The largest -l given on the command line.
MaxLevel == 1
\* The largest number of entries the initial filesystem holds beside ".".
MaxEntries == 4

(***************************************************************************)
(* Strings.                                                                *)
(***************************************************************************)
Front(s) == SubSeq(s, 1, Len(s) - 1)
Last(s) == s[Len(s)]

\* char::to_lowercase on the characters that occur.
LowerChar(c) ==
    CASE c = "A" -> "a"
      [] c = "B" -> "b"
      [] c = "J" -> "j"
      [] c = "P" -> "p"
      [] OTHER -> c

\* String::to_lowercase
to_lowercase(s) == [i \in 1..Len(s) |-> LowerChar(s[i])]

\* The position of the last '.' of a name, 0 when it has none.
LastDot(n) ==
    IF \E i \in 1..Len(n) : n[i] = "."
    THEN CHOOSE i \in 1..Len(n) : n[i] = "." /\ \A j \in (i+1)..Len(n) : n[j] # "."
    ELSE 0

\* Option<&OsStr>
None == [some |-> FALSE, val |-> << >>]
Some(x) == [some |-> TRUE, val |-> x]

\* std::path::Path::extension, as main.rs calls it: the part of the file name
\* after its last '.'; None when the path has no file name, the name is "..",
\* has no '.', or its only '.' is its first character.
extension(path) ==
    IF path = << >> THEN None
    ELSE LET n == Last(path)
             i == LastDot(n)
         IN  IF n = <<".", ".">> THEN None
             ELSE IF i = 0 THEN None
             ELSE IF i = 1 THEN None
             ELSE Some(SubSeq(n, i + 1, Len(n)))

\* fn get_extension_str
get_extension_str(path) ==
    IF extension(path).some THEN to_lowercase(extension(path).val) ELSE << >>

(***************************************************************************)
(* The filesystem.                                                         *)
(***************************************************************************)
Dir == [kind |-> "dir", data |-> << >>]
File(bytes) == [kind |-> "file", data |-> bytes]
Link(target) == [kind |-> "link", data |-> target]

IsPrefix(p, q) == Len(p) <= Len(q) /\ SubSeq(q, 1, Len(p)) = p

\* The path the operating system reaches from `path`, following symbolic links
\* (a link's target is a real path).
\* What the operating system finds at q: the target of a symbolic link, q itself otherwise.
follow(f, q) == IF q \in DOMAIN f /\ f[q].kind = "link" THEN f[q].data ELSE q

\* The path the operating system reaches from `path`, following the symbolic
\* links on the way (a link's target is a real path).
RECURSIVE Resolve(_, _)
Resolve(f, path) ==
    IF path = << >> THEN << >>
    ELSE CHOOSE r \in {follow(f, q) : q \in {Append(Resolve(f, Front(path)), Last(path))}} :
             TRUE

\* Path::exists
exists(f, path) == Resolve(f, path) \in DOMAIN f

\* Path::is_dir
is_dir(f, path) == exists(f, path) /\ f[Resolve(f, path)].kind = "dir"

IsFile(f, path) == exists(f, path) /\ f[Resolve(f, path)].kind = "file"

\* The order in which the operating system hands out the entries of a
\* directory: fixed for a filesystem, not sorted. It holds every name of the
\* filesystems a run starts from; a run lists nothing once it has begun to
\* copy (line 131 is over before line 136), so no other name is ever listed.
DirOrder ==
    << <<"a", ".", "j">>, <<"e", ".", "j">>, <<"c", ".", "p">>, <<"d">>,
       <<"b", ".", "J">>, <<"l">>, <<"o">>, <<"a">>, <<"a", ".">>, <<".", "j">> >>

\* fn ls: fs::read_dir(path).unwrap(), every entry as path.join(name).
ls_ok(f, path) == is_dir(f, path)

ls(f, path) ==
    LET names == SelectSeq(DirOrder, LAMBDA n : Append(Resolve(f, path), n) \in DOMAIN f)
    IN  [i \in 1..Len(names) |-> Append(path, names[i])]

\* A loop that expands every directory, whatever the depth left.
descends_all(f, path, level) == is_dir(f, path)

\* Whether the loop of ls_recursive expands an entry (line 55).
descends(f, path, level) == is_dir(f, path) /\ level > 0

\* A recursive call that hands its own depth on.
level_same(level) == level

\* The depth handed to the recursive call (line 56).
level_below(level) == level - 1

Panicked == [ok |-> FALSE, paths |-> << >>]

\* fn ls_recursive: ls_loop is its `for` loop over the entries still to visit,
\* `paths` what it has pushed so far. A directory that cannot be read ends the
\* process (unwrap), which the result records as ok = FALSE.
RECURSIVE ls_recursive(_, _, _), ls_loop(_, _, _, _)
ls_loop(f, entries, level, paths) ==
    IF entries = << >> THEN [ok |-> TRUE, paths |-> paths]
    ELSE LET path == Head(entries)
             pushed == Append(paths, path)
         IN  IF descends(f, path, level)
             THEN LET sub == ls_recursive(f, path, level_below(level))
                  IN  IF sub.ok
                      THEN ls_loop(f, Tail(entries), level, pushed \o sub.paths)
                      ELSE Panicked
             ELSE ls_loop(f, Tail(entries), level, pushed)

ls_recursive(f, path, level) ==
    IF ls_ok(f, path) THEN ls_loop(f, ls(f, path), level, << >>) ELSE Panicked

(***************************************************************************)
(* analyze.                                                                *)
(***************************************************************************)
\* The filter of analyze (line 91).
analyze_counts(f, path) == ~is_dir(f, path) /\ extension(path) # None

\* The fold of lines 93-100: the HashMap from extension to count.
RECURSIVE count_types(_, _)
count_types(fileseq, accumulator) ==
    IF fileseq = << >> THEN accumulator
    ELSE LET ext == get_extension_str(Head(fileseq))
             old == IF ext \in DOMAIN accumulator THEN accumulator[ext] ELSE 0
         IN  count_types(Tail(fileseq),
                 [k \in DOMAIN accumulator \cup {ext} |->
                     IF k = ext THEN old + 1 ELSE accumulator[k]])

EmptyMap == [k \in {} |-> 0]

RECURSIVE SumOver(_, _)
SumOver(map, keys) ==
    IF keys = {} THEN 0
    ELSE LET k == CHOOSE x \in keys : TRUE
         IN  map[k] + SumOver(map, keys \ {k})

\* fn filter_sum: the sum of the values whose key is in `set`.
filter_sum(map, set) == SumOver(map, {k \in DOMAIN map : k \in set})

\* A report that sums over the blacklist whichever list it names.
analyze_list_black(blacklist, whitelist) ==
    [label |-> IF whitelist = {} THEN "blacklist" ELSE "whitelist", set |-> blacklist]

\* The list analyze reports against (lines 102-106).
analyze_list(blacklist, whitelist) ==
    IF whitelist = {} THEN [label |-> "blacklist", set |-> blacklist]
    ELSE [label |-> "whitelist", set |-> whitelist]

\* fn analyze, on the listing ls_recursive returned: what it prints.
analyze(f, paths, blacklist, whitelist) ==
    LET fileseq == SelectSeq(paths, LAMBDA p : analyze_counts(f, p))
        file_count == Len(fileseq)
        file_types == count_types(fileseq, EmptyMap)
        against == analyze_list(blacklist, whitelist)
    IN  [file_count |-> file_count,
         matched |-> filter_sum(file_types, against.set),
         label |-> against.label,
         file_types |-> file_types,
         breakdown |-> IF file_count > 0
                       THEN {<<file_types[k], k>> : k \in DOMAIN file_types}
                       ELSE {}]

NoOutput ==
    [file_count |-> 0, matched |-> 0, label |-> "", file_types |-> EmptyMap,
     breakdown |-> {}]

(***************************************************************************)
(* rename.                                                                 *)
(***************************************************************************)
\* A filter that consults the blacklist beside a whitelist.
skips_both(ext, blacklist, whitelist) ==
    IF ext = << >> THEN TRUE
    ELSE ext \in blacklist \/ (whitelist # {} /\ ext \notin whitelist)

\* The `continue`s of lines 138-148.
skips(ext, blacklist, whitelist) ==
    IF ext = << >> THEN TRUE
    ELSE IF whitelist = {} THEN ext \in blacklist
    ELSE ext \notin whitelist

\* The filter of line 133.
rename_takes(f, path) == ~is_dir(f, path)

DigitChars == <<"0", "1", "2", "3", "4", "5", "6", "7", "8", "9">>

\* The decimal digits of a usize, as the template engine formats `number`.
RECURSIVE Digits(_)
Digits(n) ==
    IF n < 10 THEN <<DigitChars[n + 1]>>
    ELSE Append(Digits(n \div 10), DigitChars[(n % 10) + 1])

\* TinyTemplate::add_template: "{" opens a value, named by the next element
\* and closed by "}"; every other element is literal text. A "{" that is not
\* closed is a syntax error.
RECURSIVE compile(_)
compile(text) ==
    IF text = << >> THEN [ok |-> TRUE, parts |-> << >>]
    ELSE IF Head(text) = "{"
    THEN IF Len(text) >= 3 /\ text[3] = "}"
         THEN LET rest == compile(SubSeq(text, 4, Len(text)))
              IN  [ok |-> rest.ok,
                   parts |-> <<[var |-> TRUE, s |-> text[2]]>> \o rest.parts]
         ELSE [ok |-> FALSE, parts |-> << >>]
    ELSE LET rest == compile(Tail(text))
         IN  [ok |-> rest.ok,
              parts |-> <<[var |-> FALSE, s |-> Head(text)]>> \o rest.parts]

\* TinyTemplate::render against TemplateContext { number }: a value other than
\* `number` is not found in the context, which is an error.
RECURSIVE render_parts(_, _)
render_parts(parts, context) ==
    IF parts = << >> THEN [ok |-> TRUE, name |-> << >>]
    ELSE LET rest == render_parts(Tail(parts), context)
             p == Head(parts)
         IN  IF ~p.var THEN [ok |-> rest.ok, name |-> <<p.s>> \o rest.name]
             ELSE IF p.s = "number"
             THEN [ok |-> rest.ok, name |-> Digits(context.number) \o rest.name]
             ELSE [ok |-> FALSE, name |-> << >>]

render(template, context) == render_parts(compile(template).parts, context)

\* The filesystem with the node at `path` set.
FsPut(f, path, node) ==
    [q \in DOMAIN f \cup {path} |-> IF q = path THEN node ELSE f[q]]

\* fs::remove_dir_all: the directory and everything below it.
remove_dir_all(f, path) ==
    [q \in {x \in DOMAIN f : ~IsPrefix(path, x)} |-> f[q]]

\* fs::create_dir_all: the directory and the ancestors it lacks; fails when
\* one of them exists and is no directory.
create_dir_all_ok(f, path) ==
    \A i \in 1..Len(path) :
        SubSeq(path, 1, i) \in DOMAIN f => f[SubSeq(path, 1, i)].kind = "dir"

create_dir_all(f, path) ==
    [q \in DOMAIN f \cup {SubSeq(path, 1, i) : i \in 1..Len(path)} |->
        IF q \in DOMAIN f THEN f[q] ELSE Dir]

\* fs::copy(from, to): `to` is created, or truncated when it exists, and takes
\* the bytes of `from`; `from` stays as it is.
copy_ok(f, from, to) ==
    /\ IsFile(f, from)
    /\ to # << >>
    /\ is_dir(f, Front(to))
    /\ ~is_dir(f, to)

\* A copy that leaves a file that is there as it is.
copy_new(f, from, to) ==
    IF to \in DOMAIN f THEN f ELSE FsPut(f, to, File(f[Resolve(f, from)].data))

\* A copy that takes the source away.
move(f, from, to) ==
    [q \in (DOMAIN f \ {Resolve(f, from)}) \cup {to} |->
        IF q = to THEN File(f[Resolve(f, from)].data) ELSE f[q]]

copy(f, from, to) == FsPut(f, to, File(f[Resolve(f, from)].data))

(***************************************************************************)
(* The filesystems and command lines a run starts from.                    *)
(***************************************************************************)
nAj == <<"a", ".", "j">>
nBJ == <<"b", ".", "J">>
nCp == <<"c", ".", "p">>
nA == <<"a">>
nADot == <<"a", ".">>
nDotJ == <<".", "j">>
nD == <<"d">>
nE == <<"e", ".", "j">>
nO == <<"o">>
nL == <<"l">>

\* The entries a filesystem may hold; a file's bytes are named after the path
\* it starts at, so that every file has bytes of its own.
WorldDirs == {<< >>, <<nD>>, <<nD, nE>>, <<nD, nE, nD>>, <<nO>>, <<nO, nD>>, <<nD, nO>>}

WorldFiles ==
    {<<nAj>>, <<nD, nAj>>, <<nD, nBJ>>, <<nD, nCp>>, <<nD, nA>>, <<nD, nADot>>,
     <<nD, nDotJ>>, <<nD, nE, nAj>>, <<nD, nE, nD, nCp>>, <<nO, nAj>>,
     <<nD, nO, nCp>>}

World == [p \in WorldDirs \cup WorldFiles |-> IF p \in WorldDirs THEN Dir ELSE File(p)]

\* A filesystem holds "." and, with an entry, the directory it is in.
Closed(S) == \A p \in S : p = << >> \/ Front(p) \in S

InitialFilesystems ==
    {[p \in S \cup {<< >>} |-> World[p]] :
        S \in {T \in SUBSET (DOMAIN World \ {<< >>}) :
                  Cardinality(T) <= MaxEntries /\ Closed(T \cup {<< >>})}}

\* The command lines: -d, -l, -b, -w and the operation with its options
\* (-n, -o, -t for rename).
Directories == {<< >>, <<nD>>, <<nD, nE>>}

Levels == 0..MaxLevel

Filters ==
    {[blacklist |-> {}, whitelist |-> {}],
     [blacklist |-> {<<"p">>}, whitelist |-> {}],
     [blacklist |-> {}, whitelist |-> {<<"j">>}],
     [blacklist |-> {<<"j">>}, whitelist |-> {<<"j">>}],
     [blacklist |-> {<<"p">>}, whitelist |-> {<<"j">>}]}

Numbered == <<"i", "{", "number", "}", ".", "j">>
Unnumbered == <<"x", ".", "j">>
Unclosed == <<"i", "{", "number">>
Unknown == <<"i", "{", "name", "}">>

DefaultOptions == [start_number |-> 1, output_directory |-> <<nO>>, template |-> Numbered]

RenameOptions ==
    [start_number : {1, 9}, output_directory : {<<nO>>}, template : {Numbered}]
    \cup [start_number : {1}, output_directory : {<<nO>>, <<nD>>, <<nD, nO>>},
          template : {Numbered}]
    \cup [start_number : {1}, output_directory : {<<nO>>},
          template : {Numbered, Unnumbered, Unclosed, Unknown}]

Arguments ==
    {[operation |-> o.operation, directory |-> g.directory, level |-> g.level,
      blacklist |-> g.filter.blacklist, whitelist |-> g.filter.whitelist,
      start_number |-> o.options.start_number,
      output_directory |-> o.options.output_directory,
      template |-> o.options.template] :
        g \in [directory : Directories, level : Levels, filter : Filters],
        o \in [operation : {"Analyze"}, options : {DefaultOptions}]
              \cup [operation : {"Rename"}, options : RenameOptions]}

Init ==
    /\ fs \in InitialFilesystems
    /\ before = fs
    /\ args \in Arguments
    /\ pc = "main"
    /\ number = 0
    /\ files = << >>
    /\ listed = << >>
    /\ copies = << >>
    /\ out = NoOutput
    /\ stack = << >>
    /\ result = Panicked

(***************************************************************************)
(* The run of the process. Every filesystem call may fail for a reason of  *)
(* the operating system (permissions, a full disk); unwrap then ends the   *)
(* process, which is pc = "panicked".                                      *)
(***************************************************************************)
Panic ==
    /\ pc' = "panicked"
    /\ UNCHANGED <<fs, before, args, number, files, listed, copies, out, stack, result>>

\* main, Operation::Analyze (line 164) and fn analyze (lines 82-113).
Analyze ==
    /\ pc = "main"
    /\ args.operation = "Analyze"
    /\ LET r == ls_recursive(fs, args.directory, args.level)
       IN  \/ /\ r.ok
              /\ listed' = r.paths
              /\ out' = analyze(fs, r.paths, args.blacklist, args.whitelist)
              /\ pc' = "done"
              /\ UNCHANGED <<fs, before, args, number, files, copies, stack, result>>
           \/ Panic

\* An output directory that is never removed.
kept(f, output_directory) == f

\* The output directory once lines 124-126 have run.
wiped(f, output_directory) ==
    IF exists(f, output_directory) THEN remove_dir_all(f, output_directory) ELSE f

\* fn rename, lines 124-127: the output directory is removed and created.
RenameWipe ==
    /\ pc = "main"
    /\ args.operation = "Rename"
    /\ \/ /\ exists(fs, args.output_directory) => is_dir(fs, args.output_directory)
          /\ create_dir_all_ok(wiped(fs, args.output_directory), args.output_directory)
          /\ fs' = create_dir_all(wiped(fs, args.output_directory), args.output_directory)
          /\ pc' = "compile"
          /\ UNCHANGED <<before, args, number, files, listed, copies, out, stack, result>>
       \/ \* remove_dir_all fails
          /\ exists(fs, args.output_directory)
          /\ Panic
       \/ \* create_dir_all fails
          /\ fs' = wiped(fs, args.output_directory)
          /\ pc' = "panicked"
          /\ UNCHANGED <<before, args, number, files, listed, copies, out, stack, result>>

\* A template whose syntax error goes unnoticed.
after_compile_late(template) == "enumerate"

\* Where add_template(...).unwrap() leaves the process (line 130).
after_compile(template) == IF compile(template).ok THEN "enumerate" ELSE "panicked"

\* fn rename, lines 128-130: the counter is set and the template compiled.
RenameCompile ==
    /\ pc = "compile"
    /\ number' = args.start_number
    /\ pc' = after_compile(args.template)
    /\ UNCHANGED <<fs, before, args, files, listed, copies, out, stack, result>>

\* fn rename, lines 131-135: the input tree is listed and the directories dropped.
RenameEnumerate ==
    /\ pc = "enumerate"
    /\ LET r == ls_recursive(fs, args.directory, args.level)
       IN  \/ /\ r.ok
              /\ listed' = r.paths
              /\ files' = SelectSeq(r.paths, LAMBDA p : rename_takes(fs, p))
              /\ pc' = "loop"
              /\ UNCHANGED <<fs, before, args, number, copies, out, stack, result>>
           \/ Panic

\* The destination of line 152.
destination(output_directory, name) == Append(output_directory, name)

\* A counter that moves by two.
skip_number(n) == n + 2

\* number += 1 (line 155).
next_number(n) == n + 1

\* fn rename, lines 136-156: one turn of the `for` loop, or its end.
RenameLoop ==
    /\ pc = "loop"
    /\ \/ /\ files = << >>
          /\ pc' = "done"
          /\ UNCHANGED <<fs, before, args, number, files, listed, copies, out, stack, result>>
       \/ /\ files # << >>
          /\ skips(get_extension_str(Head(files)), args.blacklist, args.whitelist)
          /\ files' = Tail(files)
          /\ UNCHANGED <<fs, before, args, pc, number, listed, copies, out, stack, result>>
       \/ /\ files # << >>
          /\ ~skips(get_extension_str(Head(files)), args.blacklist, args.whitelist)
          /\ LET r == render(args.template, [number |-> number])
                 to == destination(args.output_directory, r.name)
             IN  \/ /\ r.ok
                    /\ copy_ok(fs, Head(files), to)
                    /\ fs' = copy(fs, Head(files), to)
                    /\ copies' = Append(copies, [from |-> Head(files), to |-> to,
                                                 number |-> number])
                    /\ number' = next_number(number)
                    /\ files' = Tail(files)
                    /\ UNCHANGED <<before, args, pc, listed, out, stack, result>>
                 \/ Panic

Next == Analyze \/ RenameWipe \/ RenameCompile \/ RenameEnumerate \/ RenameLoop

Spec == Init /\ [][Next]_vars

(***************************************************************************)
(* ls_recursive step by step: one frame per call that has not returned,    *)
(* on filesystems that may hold symbolic links to directories, loops       *)
(* included.                                                               *)
(***************************************************************************)
\* The symbolic links a filesystem may hold, each with its target: every one
\* of them leads back to a directory above it.
WorldLinks ==
    {[at |-> <<nL>>, to |-> << >>],
     [at |-> <<nD, nL>>, to |-> <<nD>>],
     [at |-> <<nD, nE, nL>>, to |-> <<nD>>]}

RECURSIVE with_links(_, _)
with_links(f, links) ==
    IF links = {} THEN f
    ELSE LET l == CHOOSE x \in links : TRUE
         IN  with_links(FsPut(f, l.at, Link(l.to)), links \ {l})

\* The filesystem with every link of WorldLinks it has the place for.
looped(f) ==
    with_links(f, {l \in WorldLinks : Front(l.at) \in DOMAIN f /\ l.to \in DOMAIN f})

\* The entries of the filesystems ls_recursive is run on step by step.
ListedPaths == {<< >>, <<nD>>, <<nD, nE>>, <<nD, nAj>>, <<nD, nE, nAj>>, <<nO>>}

LinkedFilesystems ==
    LET trees == {[p \in S |-> World[p]] :
                     S \in {T \in SUBSET ListedPaths : << >> \in T /\ Closed(T)}}
    IN  trees \cup {looped(f) : f \in trees}

ListingArguments ==
    {a \in Arguments : a.operation = "Analyze" /\ a.blacklist = {} /\ a.whitelist = {}}

\* The deepest call stack the step-by-step listing is run to.
MaxStack == MaxLevel + 3

LsInit ==
    /\ fs \in LinkedFilesystems
    /\ before = fs
    /\ args \in ListingArguments
    /\ pc = "call"
    /\ number = 0
    /\ files = << >>
    /\ listed = << >>
    /\ copies = << >>
    /\ out = NoOutput
    /\ stack = << >>
    /\ result = Panicked

\* The frame of a call of ls_recursive(path, level) as it enters its loop.
frame(f, path, level) ==
    [path |-> path, level |-> level, entries |-> ls(f, path), paths |-> << >>]

Top == stack[Len(stack)]

\* The stack with its top frame replaced.
with_top(fr) == [stack EXCEPT ![Len(stack)] = fr]

LsPanic ==
    /\ pc' = "panicked"
    /\ UNCHANGED <<fs, before, args, number, files, listed, copies, out, stack, result>>

\* The call by the operation (lines 88, 131).
LsCall ==
    /\ pc = "call"
    /\ \/ /\ ls_ok(fs, args.directory)
          /\ stack' = <<frame(fs, args.directory, args.level)>>
          /\ pc' = "listing"
          /\ UNCHANGED <<fs, before, args, number, files, listed, copies, out, result>>
       \/ LsPanic

\* One turn of the loop for an entry that is not expanded (lines 53-55).
LsVisit ==
    /\ pc = "listing"
    /\ Top.entries # << >>
    /\ ~descends(fs, Head(Top.entries), Top.level)
    /\ stack' = with_top([Top EXCEPT !.entries = Tail(@),
                                     !.paths = Append(@, Head(Top.entries))])
    /\ UNCHANGED <<fs, before, args, pc, number, files, listed, copies, out, result>>

\* One turn of the loop for an entry that is expanded: the recursive call (line 56).
LsDescend ==
    /\ pc = "listing"
    /\ Top.entries # << >>
    /\ descends(fs, Head(Top.entries), Top.level)
    /\ Len(stack) < MaxStack
    /\ \/ /\ ls_ok(fs, Head(Top.entries))
          /\ stack' = Append(with_top([Top EXCEPT !.entries = Tail(@),
                                                  !.paths = Append(@, Head(Top.entries))]),
                             frame(fs, Head(Top.entries), level_below(Top.level)))
          /\ UNCHANGED <<fs, before, args, pc, number, files, listed, copies, out, result>>
       \/ LsPanic

\* The end of the loop: `paths` goes to the caller, which appends it (lines 56, 59).
LsReturn ==
    /\ pc = "listing"
    /\ Top.entries = << >>
    /\ \/ /\ Len(stack) > 1
          /\ stack' = [Front(stack) EXCEPT ![Len(stack) - 1].paths = @ \o Top.paths]
          /\ UNCHANGED <<fs, before, args, pc, number, files, listed, copies, out, result>>
       \/ /\ Len(stack) = 1
          /\ stack' = << >>
          /\ result' = [ok |-> TRUE, paths |-> Top.paths]
          /\ pc' = "returned"
          /\ UNCHANGED <<fs, before, args, number, files, listed, copies, out>>

LsNext == LsCall \/ LsVisit \/ LsDescend \/ LsReturn

LsSpec == LsInit /\ [][LsNext]_vars

\* The process is single-threaded and runs to completion: a step that can be
\* taken is taken.
FairLsSpec == LsSpec /\ WF_vars(LsNext)

(***************************************************************************)
(* The properties.                                                         *)
(***************************************************************************)
\* p lies below the directory d.
Under(d, p) == IsPrefix(d, p) /\ p # d

Renaming == args.operation = "Rename"
Analyzing == args.operation = "Analyze"

\* The positions of a sequence.
Idx(s) == 1..Len(s)

\* The filter of section 4.3, as the specification words it.
Admits(ext, blacklist, whitelist) ==
    IF whitelist # {} THEN ext \in whitelist ELSE ext \notin blacklist

\* The entries of the output directory.
InOutput(f) == {p \in DOMAIN f : Under(args.output_directory, p)}

\* The bytes the k-th copy read.
CopiedBytes(k) == before[copies[k].from].data

\* C1: the k-th file copied is rendered with start_number + k - 1, and a
\* file that is skipped takes no number: the counter is always start_number
\* plus the number of copies made.
C1_Numbers ==
    /\ \A k \in Idx(copies) :
          /\ copies[k].number = args.start_number + k - 1
          /\ copies[k].to =
                 Append(args.output_directory,
                        render(args.template, [number |-> args.start_number + k - 1]).name)
    /\ Renaming /\ pc \in {"loop", "done"} => number = args.start_number + Len(copies)

\* A run that copied two files around one it skipped, past the number 9.
C1_Witness ==
    /\ pc = "done"
    /\ Len(copies) = 2
    /\ args.start_number = 9
    /\ \E i, j, k \in Idx(listed) :
          /\ i < j /\ j < k
          /\ copies[1].from = listed[i]
          /\ copies[2].from = listed[k]
          /\ IsFile(fs, listed[j])

\* C2: a run that ends without a fatal error has copied exactly the entries
\* that are no directory, have a non-empty lower-cased extension and are
\* admitted by the filter (the whitelist alone when it is not empty); no run
\* copies anything else.
C2_Copied ==
    LET admitted == {i \in Idx(listed) :
                        /\ ~is_dir(fs, listed[i])
                        /\ get_extension_str(listed[i]) # << >>
                        /\ Admits(get_extension_str(listed[i]), args.blacklist,
                                  args.whitelist)}
    IN  /\ \A k \in Idx(copies) : \E i \in admitted : listed[i] = copies[k].from
        /\ pc = "done" /\ Renaming =>
              \A i \in admitted : \E k \in Idx(copies) : copies[k].from = listed[i]

\* A finished run that copied a file whose extension is in both lists and
\* left out one the whitelist does not name.
C2_Witness ==
    /\ pc = "done"
    /\ \E k \in Idx(copies) :
          get_extension_str(copies[k].from) \in args.blacklist \cap args.whitelist
    /\ \E i \in Idx(listed) :
          /\ IsFile(fs, listed[i])
          /\ get_extension_str(listed[i]) # << >>
          /\ \A k \in Idx(copies) : copies[k].from # listed[i]

\* C3: file_count is the number of listed entries that are no directory and
\* have a non-empty extension.
C3_FileCount ==
    pc = "done" /\ Analyzing =>
        out.file_count =
            Cardinality({i \in Idx(listed) :
                            ~is_dir(fs, listed[i]) /\ get_extension_str(listed[i]) # << >>})

\* The entries analyze counts.
Counted == {i \in Idx(listed) : analyze_counts(fs, listed[i])}

\* C4: file_types counts the counted files by extension, its counts add up
\* to file_count, and `matched` is the number of counted files whose
\* extension is in the whitelist, or in the blacklist when the whitelist is
\* empty: between 0 and file_count.
C4_Matched ==
    pc = "done" /\ Analyzing =>
        LET list == IF args.whitelist # {} THEN args.whitelist ELSE args.blacklist
        IN  /\ DOMAIN out.file_types = {get_extension_str(listed[i]) : i \in Counted}
            /\ \A e \in DOMAIN out.file_types :
                  out.file_types[e] =
                      Cardinality({i \in Counted : get_extension_str(listed[i]) = e})
            /\ SumOver(out.file_types, DOMAIN out.file_types) = out.file_count
            /\ out.matched =
                   Cardinality({i \in Counted : get_extension_str(listed[i]) \in list})
            /\ out.label = IF args.whitelist # {} THEN "whitelist" ELSE "blacklist"
            /\ 0 <= out.matched /\ out.matched <= out.file_count

\* An analysis against a whitelist that matches some of the files counted.
C4_Witness ==
    /\ pc = "done"
    /\ Analyzing
    /\ args.whitelist # {}
    /\ args.blacklist # args.whitelist
    /\ 0 < out.matched
    /\ out.matched < out.file_count

\* C5: once the output directory has been removed and created, all it holds
\* is what this run copied into it: nothing of what it held before is left,
\* from before the first copy to the end of the run.
C5_FreshOutput ==
    Renaming /\ pc \in {"compile", "enumerate", "loop", "done"} =>
        \A p \in InOutput(fs) :
            /\ fs[p].kind = "file"
            /\ \E k \in Idx(copies) : copies[k].to = p /\ fs[p].data = CopiedBytes(k)

\* A finished run that copied into an output directory that held something.
C5_Witness ==
    /\ pc = "done"
    /\ copies # << >>
    /\ InOutput(before) # {}

\* C6, as claimed: no copy of a run takes the name of an earlier copy of
\* the run, so that a finished run leaves one file per file copied.
C6_NoCollision ==
    /\ \A k, l \in Idx(copies) : copies[k].to = copies[l].to => k = l
    /\ pc = "done" /\ Renaming => Cardinality(InOutput(fs)) = Len(copies)

\* C6, amended: a copy under a name already used replaces the earlier copy
\* and the run goes on: a finished run leaves one file per rendered name,
\* with the bytes of the last file copied under it; the names differ when
\* the template holds {number}.
C6_Overwrites ==
    /\ pc = "done" /\ Renaming =>
          /\ InOutput(fs) = {copies[k].to : k \in Idx(copies)}
          /\ \A k \in Idx(copies) :
                (\A l \in Idx(copies) : copies[l].to = copies[k].to => l <= k)
                    => fs[copies[k].to] = File(CopiedBytes(k))
    /\ args.template = Numbered =>
          \A k, l \in Idx(copies) : copies[k].to = copies[l].to => k = l

\* A finished run whose second copy took the name of the first.
C6_Witness ==
    /\ pc = "done"
    /\ Len(copies) >= 2
    /\ copies[1].to = copies[2].to
    /\ CopiedBytes(1) # CopiedBytes(2)

\* The listing has just been made, and the filesystem is as it was listed.
JustListed ==
    \/ Analyzing /\ pc = "done"
    \/ Renaming /\ pc = "loop" /\ copies = << >>

\* C7: on a tree, ls_recursive(D, L) returns every entry at most L + 1
\* levels below D, each once, a directory before what it holds and what it
\* holds right after it, before anything else.
C7_Preorder ==
    JustListed =>
        /\ {listed[i] : i \in Idx(listed)} =
               {p \in DOMAIN fs :
                   Under(args.directory, p) /\ Len(p) - Len(args.directory) <= args.level + 1}
        /\ \A i, j \in Idx(listed) : listed[i] = listed[j] => i = j
        /\ \A i \in Idx(listed) :
              LET held == {j \in Idx(listed) : Under(listed[i], listed[j])}
              IN  held = {j \in Idx(listed) : i < j /\ j <= i + Cardinality(held)}

\* A listing with a directory that was expanded and is followed by another
\* entry, and a directory L + 1 levels down that holds something and was not.
C7_Witness ==
    /\ JustListed
    /\ \E i, j, k \in Idx(listed) :
          /\ i < j /\ j < k
          /\ Under(listed[i], listed[j])
          /\ ~Under(listed[i], listed[k])
    /\ \E i \in Idx(listed) :
          /\ Len(listed[i]) - Len(args.directory) = args.level + 1
          /\ \E p \in DOMAIN fs : Under(listed[i], p)

\* C8: the steps of rename come in the order of the code and a failure is
\* the end of the run: the output directory is removed and created first,
\* the template compiled next (an invalid one ends the run there), then the
\* tree listed; a run that ends before the loop has copied nothing and left
\* the output directory empty; a run that ends in the loop leaves the copies
\* made so far and nothing else; nothing is done after a failure or the end.
C8_Step ==
    /\ pc \notin {"panicked", "done"}
    /\ Renaming =>
          /\ <<pc, pc'>> \in {<<"main", "compile">>, <<"main", "panicked">>,
                             <<"compile", "enumerate">>, <<"compile", "panicked">>,
                             <<"enumerate", "loop">>, <<"enumerate", "panicked">>,
                             <<"loop", "loop">>, <<"loop", "done">>,
                             <<"loop", "panicked">>}
          /\ pc = "main" => copies' = << >> /\ listed' = << >>
          /\ pc = "main" /\ pc' = "compile" =>
                InOutput(fs') = {} /\ is_dir(fs', args.output_directory)
          /\ pc \in {"compile", "enumerate"} =>
                copies' = << >> /\ fs' = fs /\ InOutput(fs') = {}
          /\ pc = "compile" /\ args.template \in {Unclosed} => pc' = "panicked"
          /\ pc = "compile" /\ args.template \in {Numbered, Unnumbered, Unknown}
                => pc' = "enumerate"
          /\ pc = "loop" /\ pc' = "panicked" =>
                /\ copies' = copies
                /\ fs' = fs
                /\ InOutput(fs') = {copies[k].to : k \in Idx(copies)}
          /\ pc = "loop" /\ args.template = Unknown => copies' = << >>
          /\ pc = "loop" /\ pc' = "loop" =>
                \/ copies' = copies /\ fs' = fs
                \/ Len(copies') = Len(copies) + 1

\* C8: every step of a run is a step as C8_Step describes it.
C8_FailFast == [][C8_Step]_vars

\* A run that failed on a later file, with the earlier copies made.
C8_Witness ==
    /\ pc = "panicked"
    /\ Renaming
    /\ Len(copies) >= 1
    /\ files # << >>
    /\ ~skips(get_extension_str(Head(files)), args.blacklist, args.whitelist)

\* C9, as claimed: whatever is under the input directory when the run
\* starts is there, as it was, throughout the run.
C9_InputUntouched ==
    Renaming =>
        \A p \in DOMAIN before :
            IsPrefix(args.directory, p) => p \in DOMAIN fs /\ fs[p] = before[p]

\* C9, amended: what the run deletes is what the output directory held,
\* also where that is part of the input tree; everything else under the input
\* directory is there, as it was, throughout the run, and every copy reads
\* a file that was there when the run started, never one the run wrote.
C9_OnlyOutputLost ==
    Renaming =>
        /\ \A p \in DOMAIN before :
              IsPrefix(args.directory, p) /\ ~IsPrefix(args.output_directory, p)
                  => p \in DOMAIN fs /\ fs[p] = before[p]
        /\ \A p \in DOMAIN before :
              p \notin DOMAIN fs \/ fs[p] # before[p] => IsPrefix(args.output_directory, p)
        /\ \A k \in Idx(copies) :
              /\ copies[k].from \in DOMAIN before
              /\ before[copies[k].from].kind = "file"
              /\ \A l \in Idx(copies) : copies[l].to # copies[k].from

\* A finished run with copies, into an output directory inside the input
\* directory that held something before.
C9_Witness ==
    /\ pc = "done"
    /\ copies # << >>
    /\ Under(args.directory, args.output_directory)
    /\ InOutput(before) # {}

\* The run of ls_recursive is over.
LsOver == pc \in {"returned", "panicked"}

\* C10: every call of ls_recursive gets a depth one less than its caller's
\* and none is made at depth 0, so at most level + 1 calls are open at a
\* time, and the listing comes to its end or to a fatal error, symbolic links
\* that lead back up included.
C10_Terminates ==
    /\ [](/\ Len(stack) <= args.level + 1
          /\ \A i \in Idx(stack) : stack[i].level = args.level - (i - 1))
    /\ <>LsOver

\* A listing that returned after it went through a symbolic link that leads
\* back to a directory above it.
C10_Witness ==
    /\ pc = "returned"
    /\ \E i \in Idx(result.paths) :
          \E n \in 1..(Len(result.paths[i]) - 1) :
              LET q == SubSeq(result.paths[i], 1, n)
              IN  /\ q \in DOMAIN fs
                  /\ fs[q].kind = "link"
                  /\ IsPrefix(fs[q].data, q)

====
